---- MODULE Spec2Model ----
(***************************************************************************)
(* A model of the structured-extraction pipeline of the Startup Scorecard  *)
(* Generator: src/utils.py (analyze_pitch_deck, validate_structure,        *)
(* compute_overall_score) and the batch loop of src/app.py.                *)
(*                                                                         *)
(* Reading of src/utils.py.  Lines 121-124 (the two prints, time.sleep and *)
(* continue) directly follow "except Exception as e:" and are modelled as  *)
(* the body of that handler.  Lines 144-146 (the validated branch that     *)
(* assigns data["OverallScore"]) stand at module level, after              *)
(* compute_overall_score and outside every function: they are not part of  *)
(* analyze_pitch_deck, whose validated branch is lines 118-119.            *)
(*                                                                         *)
(* A text is a sequence of lexical units: the punctuation characters, a    *)
(* whitespace character, a backtick, and whole tokens (a quoted string, a  *)
(* number, null, a word of prose) that contain none of those characters.   *)
(***************************************************************************)
EXTENDS Integers, Sequences, FiniteSets, TLC

VARIABLES
    text,         \* a text handed to the repair step
    once,         \* the repair step's output on text
    twice,        \* the repair step's output on once
    rpc,          \* "raw", "once" or "twice": how far the repair has been run
    docs,         \* app.py: the extracted text of each uploaded file
    idx,          \* app.py: position of the for loop over uploaded_files
    pc,           \* control point of the script
    attempt,      \* analyze_pitch_deck: the loop variable of range(5)
    response,     \* analyze_pitch_deck: response.text of the last call
    raw,          \* analyze_pitch_deck: raw
    data,         \* analyze_pitch_deck: data
    result,       \* app.py: result
    calls,        \* model.generate_content calls made for each document
    events,       \* calls, sleeps and returns of the current run, in order
    pdf_buffers,  \* app.py: documents with a rendered scorecard
    error_files   \* app.py: documents reported as failed

repairVars == <<text, once, twice, rpc>>
appVars == <<docs, idx, pc, attempt, response, raw, data, result, calls,
             events, pdf_buffers, error_files>>
vars == <<repairVars, appVars>>

----------------------------------------------------------------------------
(* Lexical units *)

Whitespace == {" "}
\* the unit that stands for one backtick character
Backtick == "BACKTICK"

RECURSIVE lstrip(_)
lstrip(s) == IF s # <<>> /\ Head(s) \in Whitespace THEN lstrip(Tail(s)) ELSE s

RECURSIVE rstrip(_)
rstrip(s) ==
    IF s # <<>> /\ s[Len(s)] \in Whitespace
    THEN rstrip(SubSeq(s, 1, Len(s) - 1))
    ELSE s

\* str.strip(): leading and trailing whitespace removed
strip(s) == rstrip(lstrip(s))

\* the argument of .replace at line 107 is a run of FenceLen backticks
FenceLen == 6

IsFenceAt(s, i) ==
    /\ i + FenceLen - 1 <= Len(s)
    /\ \A j \in i .. (i + FenceLen - 1) : s[j] = Backtick

\* str.replace("``````", ""): find the next occurrence from the left, copy
\* what precedes it, drop it, and go on after it
RECURSIVE replace_from(_, _)
replace_from(s, i) ==
    LET found == { j \in i .. Len(s) : IsFenceAt(s, j) } IN
    IF found = {} THEN SubSeq(s, i, Len(s))
    ELSE LET f == CHOOSE j \in found : \A j2 \in found : j <= j2
         IN  SubSeq(s, i, f - 1) \o replace_from(s, f + FenceLen)

replace_fence(s) == replace_from(s, 1)

\* str.count(c) for a one-character c
count(s, c) == Cardinality({ i \in DOMAIN s : s[i] = c })

\* c * n
RECURSIVE times(_, _)
times(c, n) == IF n <= 0 THEN <<>> ELSE <<c>> \o times(c, n - 1)

\* line 107: response.text.strip().replace("``````", "")
clean(t) == replace_fence(strip(t))

\* lines 109-112 with one closer appended whatever the deficit
balance_braces_one(r) ==
    IF count(r, "{") > count(r, "}") THEN Append(r, "}") ELSE r

\* lines 109-112
balance_braces(r) ==
    LET open_braces == count(r, "{")
        close_braces == count(r, "}")
    IN  IF open_braces > close_braces
        THEN r \o times("}", open_braces - close_braces)
        ELSE r

\* lines 113-116
balance_brackets(r) ==
    LET open_brackets == count(r, "[")
        close_brackets == count(r, "]")
    IN  IF open_brackets > close_brackets
        THEN r \o times("]", open_brackets - close_brackets)
        ELSE r

\* lines 107-116: the text handed to json5.loads
repair(t) == balance_brackets(balance_braces(clean(t)))

----------------------------------------------------------------------------
(* The repair step on bounded texts *)

MaxPieces == 4

Pieces == { <<"{">>, <<"}">>, <<"[">>, <<"]">>, <<" ">>, <<"a">>,
            <<Backtick, Backtick, Backtick>> }

RECURSIVE Concat(_)
Concat(ps) == IF ps = <<>> THEN <<>> ELSE Head(ps) \o Concat(Tail(ps))

Texts == { Concat(ps) : ps \in UNION { [1..n -> Pieces] : n \in 0..MaxPieces } }

----------------------------------------------------------------------------
(* Parsed documents: what json5.loads returns *)

None == [k |-> "null"]
Str(x) == [k |-> "str", s |-> x]
Num(x) == [k |-> "num", n |-> x]
List(xs) == [k |-> "list", items |-> xs]
Dict(f) == [k |-> "dict", m |-> f]

EmptyMap == [x \in {} |-> None]

REQUIRED_KEYS ==
    << "StartupName", "OverallScore", "ExecutiveSummary", "Sector",
       "SectorAnalysisIndia", "TracxnStyleBenchmark", "ProductMarketFit",
       "GTMExecution", "SupplyChainOps", "BusinessModel", "FoundersEvaluation",
       "ExitOptions", "Comments", "CompetitiveLandscape",
       "UncertaintyAnalysis" >>

RequiredSet == { REQUIRED_KEYS[i] : i \in DOMAIN REQUIRED_KEYS }

\* a quoted string whose content holds every required key name
AllNames == "StartupName OverallScore ... UncertaintyAnalysis"

\* the quoted strings, numbers and bare words that occur in the modelled texts
StringLits == RequiredSet \cup {"Foo", "reason", "Criterion", AllNames}
NumberLits == {"0", "7", "40", "60", "80"}
Words == {"a", "Here"}

NumVal(u) ==
    CASE u = "0" -> 0 [] u = "7" -> 7 [] u = "40" -> 40
      [] u = "60" -> 60 [] u = "80" -> 80

\* sub in s, for two quoted strings
Substring(sub, s) == sub = s \/ (s = AllNames /\ sub \in RequiredSet)

ParseFail == [ok |-> FALSE, v |-> None, i |-> 0]
ParseOk(val, next) == [ok |-> TRUE, v |-> val, i |-> next]

RECURSIVE skip_ws(_, _)
skip_ws(s, i) ==
    IF i <= Len(s) /\ s[i] \in Whitespace THEN skip_ws(s, i + 1) ELSE i

RECURSIVE parse_value(_, _), parse_members(_, _, _), parse_elements(_, _, _)

\* one JSON5 value starting at or after position i
parse_value(s, i) ==
    LET j == skip_ws(s, i) IN
    IF j > Len(s) THEN ParseFail
    ELSE IF s[j] = "{" THEN parse_members(s, j + 1, EmptyMap)
    ELSE IF s[j] = "[" THEN parse_elements(s, j + 1, <<>>)
    ELSE IF s[j] \in StringLits THEN ParseOk(Str(s[j]), j + 1)
    ELSE IF s[j] \in NumberLits THEN ParseOk(Num(NumVal(s[j])), j + 1)
    ELSE IF s[j] = "null" THEN ParseOk(None, j + 1)
    ELSE ParseFail

\* the members of an object, from just after "{" or after a ","; a key is a
\* quoted string or an identifier, a trailing comma is accepted, and a
\* repeated key keeps its last value
parse_members(s, i, m) ==
    LET j == skip_ws(s, i) IN
    IF j > Len(s) THEN ParseFail
    ELSE IF s[j] = "}" THEN ParseOk(Dict(m), j + 1)
    ELSE IF s[j] \notin (StringLits \cup Words) THEN ParseFail
    ELSE LET c == skip_ws(s, j + 1) IN
         IF c > Len(s) \/ s[c] # ":" THEN ParseFail
         ELSE LET val == parse_value(s, c + 1) IN
              IF ~val.ok THEN ParseFail
              ELSE LET n == skip_ws(s, val.i)
                       m2 == (s[j] :> val.v) @@ m
                   IN  IF n > Len(s) THEN ParseFail
                       ELSE IF s[n] = "," THEN parse_members(s, n + 1, m2)
                       ELSE IF s[n] = "}" THEN ParseOk(Dict(m2), n + 1)
                       ELSE ParseFail

\* the elements of an array, from just after "[" or after a ","
parse_elements(s, i, xs) ==
    LET j == skip_ws(s, i) IN
    IF j > Len(s) THEN ParseFail
    ELSE IF s[j] = "]" THEN ParseOk(List(xs), j + 1)
    ELSE LET val == parse_value(s, j) IN
         IF ~val.ok THEN ParseFail
         ELSE LET n == skip_ws(s, val.i)
                  xs2 == Append(xs, val.v)
              IN  IF n > Len(s) THEN ParseFail
                  ELSE IF s[n] = "," THEN parse_elements(s, n + 1, xs2)
                  ELSE IF s[n] = "]" THEN ParseOk(List(xs2), n + 1)
                  ELSE ParseFail

\* json5.loads(s): one value, then only whitespace up to the end of the text;
\* anything else raises
json5_loads(s) ==
    LET val == parse_value(s, 1) IN
    IF val.ok /\ skip_ws(s, val.i) > Len(s) THEN val ELSE ParseFail

----------------------------------------------------------------------------
(* Validation and the derived score *)

\* Python truth value of a parsed document ("data and ...", "if result:")
truthy(d) ==
    CASE d.k = "dict" -> DOMAIN d.m # {}
      [] d.k = "list" -> d.items # <<>>
      [] d.k = "str" -> d.s # ""
      [] d.k = "num" -> d.n # 0
      [] OTHER -> FALSE

\* key in d: a key of a mapping, an element of a list, a substring of a string
contains(d, key) ==
    CASE d.k = "dict" -> key \in DOMAIN d.m
      [] d.k = "list" -> \E i \in DOMAIN d.items : d.items[i] = Str(key)
      [] d.k = "str" -> Substring(key, d.s)
      [] OTHER -> FALSE

\* "k in data" raises TypeError when data is a number (or None)
validate_raises(d) == d.k \in {"num", "null"}

validate_structure(d) == \A i \in DOMAIN REQUIRED_KEYS : contains(d, REQUIRED_KEYS[i])

\* a section's numeric leaves: the keys whose value is a non-empty list that
\* starts with a number
numeric_leaves(section) ==
    { key \in DOMAIN section.m :
        /\ section.m[key].k = "list"
        /\ Len(section.m[key].items) > 0
        /\ section.m[key].items[1].k = "num" }

RECURSIVE sum_leaves(_, _)
sum_leaves(section, keys) ==
    IF keys = {} THEN 0
    ELSE LET key == CHOOSE x \in keys : TRUE
         IN  section.m[key].items[1].n + sum_leaves(section, keys \ {key})

\* avg_section as an exact fraction: sum(vals) / len(vals), or 0
avg_section(section) ==
    LET keys == numeric_leaves(section) IN
    IF keys = {} THEN [num |-> 0, den |-> 1]
    ELSE [num |-> sum_leaves(section, keys), den |-> Cardinality(keys)]

\* scorecard.get(name, {})
get_section(scorecard, name) ==
    IF name \in DOMAIN scorecard.m THEN scorecard.m[name] ELSE Dict(EmptyMap)

\* round(x / d, 2) in hundredths, ties to even; the inexactness of binary
\* floating point is not modelled
round2(x, d) ==
    LET q == (100 * x) \div d
        r == (100 * x) % d
    IN  IF 2 * r > d THEN q + 1
        ELSE IF 2 * r < d THEN q
        ELSE IF q % 2 = 0 THEN q ELSE q + 1

\* the number of sections averaged at line 141
NumSections == 5

\* compute_overall_score, in hundredths
compute_overall_score(scorecard) ==
    LET pmf == avg_section(get_section(scorecard, "ProductMarketFit"))
        gtm == avg_section(get_section(scorecard, "GTMExecution"))
        sc  == avg_section(get_section(scorecard, "SupplyChainOps"))
        bm  == avg_section(get_section(scorecard, "BusinessModel"))
        fe  == avg_section(get_section(scorecard, "FoundersEvaluation"))
        den == pmf.den * gtm.den * sc.den * bm.den * fe.den
        num == pmf.num * (den \div pmf.den) + gtm.num * (den \div gtm.den)
               + sc.num * (den \div sc.den) + bm.num * (den \div bm.den)
               + fe.num * (den \div fe.den)
    IN  round2(num, NumSections * den)

\* generate_scorecard_pdf(result) and result['StartupName'].replace(...) run
\* without raising: the record is a mapping whose sections have the types the
\* renderer's helpers call methods of
renders(r) ==
    /\ r.k = "dict"
    /\ "StartupName" \in DOMAIN r.m /\ r.m["StartupName"].k = "str"
    /\ \A name \in {"ProductMarketFit", "GTMExecution", "SupplyChainOps",
                    "BusinessModel", "FoundersEvaluation", "UncertaintyAnalysis"} :
          get_section(r, name).k = "dict"
    /\ LET b == get_section(r, "TracxnStyleBenchmark")
       IN  ~truthy(b) \/ b.k = "dict"
    /\ "CompetitiveLandscape" \in DOMAIN r.m =>
          LET c == r.m["CompetitiveLandscape"]
          IN  \/ c.k = "list" /\ \A i \in DOMAIN c.items : c.items[i].k = "dict"
              \/ c.k = "dict" /\ DOMAIN c.m = {}

----------------------------------------------------------------------------
(* The model's possible responses *)

Member(key, valueText) == <<key, ":">> \o valueText

RECURSIVE Join(_)
Join(ts) ==
    IF ts = <<>> THEN <<>>
    ELSE IF Len(ts) = 1 THEN ts[1]
    ELSE ts[1] \o <<",">> \o Join(Tail(ts))

Object(memberTexts) == <<"{">> \o Join(memberTexts) \o <<"}">>

\* { "Criterion": [score, "reason"] }
SectionText(score) ==
    Object(<< Member("Criterion", <<"[", score, ",", "reason", "]">>) >>)

ScoredSections == {"ProductMarketFit", "GTMExecution", "SupplyChainOps",
                   "BusinessModel", "FoundersEvaluation"}

\* the value written for a required key in a well-formed scorecard
ValueText(key, overall, score) ==
    IF key = "OverallScore" THEN <<overall>>
    ELSE IF key \in ScoredSections THEN SectionText(score)
    ELSE IF key \in {"TracxnStyleBenchmark", "UncertaintyAnalysis"} THEN <<"{", "}">>
    ELSE IF key = "CompetitiveLandscape" THEN <<"[", "]">>
    ELSE <<"Foo">>

\* an object holding the first n required keys
ScorecardText(n, overall, score) ==
    Object([i \in 1..n |-> Member(REQUIRED_KEYS[i],
                                  ValueText(REQUIRED_KEYS[i], overall, score))])

ValidText == ScorecardText(Len(REQUIRED_KEYS), "80", "60")
\* the same, cut off before its last "}"
TruncatedText == SubSeq(ValidText, 1, Len(ValidText) - 1)
\* the same, with a sentence before it and a word after it
ProseText == <<"Here", " ">> \o ValidText \o <<" ", "a">>
\* the same, with leading and trailing whitespace
PaddedText == <<" ">> \o ValidText \o <<" ">>
\* an object that lacks required keys
MissingText == ScorecardText(2, "80", "60")
\* a list of the required key names
NamesListText == <<"[">> \o Join([i \in DOMAIN REQUIRED_KEYS |-> <<REQUIRED_KEYS[i]>>]) \o <<"]">>

Responses ==
    { ValidText, TruncatedText, ProseText, PaddedText, MissingText,
      NamesListText, <<AllNames>>, <<"7">>, <<"null">>, <<"{", "}">>, <<"a">>,
      <<>> }

----------------------------------------------------------------------------
(* analyze_pitch_deck: the retry loop, lines 103-126 *)

\* range(5)
MaxAttempts == 5

\* 2 ** attempt
backoff(a) == 2 ^ a

NoText == [some |-> FALSE, v |-> <<>>]
SomeText(t) == [some |-> TRUE, v |-> t]

Event(kind, seconds) == [e |-> kind, d |-> seconds]

\* what lines 107-119 do with a response text: "return" the record, raise
\* into the handler ("except"), or fall through to the next iteration ("retry")
outcome_of(r) ==
    LET p == json5_loads(repair(r)) IN
    IF ~p.ok THEN "except"
    ELSE IF ~truthy(p.v) THEN "retry"
    ELSE IF validate_raises(p.v) THEN "except"
    ELSE IF validate_structure(p.v) THEN "return"
    ELSE "retry"

Repaired == [r \in Responses |-> repair(r)]
Parsed == [r \in Responses |-> json5_loads(repair(r))]
Outcome == [r \in Responses |-> outcome_of(r)]

\* a loop that runs one iteration more
has_next_off_by_one(a) == a + 1 <= MaxAttempts

\* the for loop has another iteration after the one with loop variable a
has_next(a) == a + 1 < MaxAttempts

\* the end of an iteration that did not return: the next iteration, or the
\* return of line 126
NextIteration ==
    IF has_next(attempt)
    THEN /\ attempt' = attempt + 1
         /\ pc' = "attempt"
         /\ result' = result
    ELSE /\ attempt' = attempt
         /\ pc' = "returned"
         /\ result' = None

\* model.generate_content raises: the handler of lines 120-124 prints
\* raw[:1000], which raises TypeError while raw is still None, and otherwise
\* sleeps and continues
CallFails ==
    /\ pc = "attempt"
    /\ calls' = [calls EXCEPT ![idx] = @ + 1]
    /\ response' = NoText
    /\ UNCHANGED <<raw, data>>
    /\ IF raw.some
       THEN /\ events' = events \o <<Event("error", 0),
                                     Event("sleep", backoff(attempt))>>
            /\ NextIteration
       ELSE /\ events' = Append(events, Event("error", 0))
            /\ pc' = "raised"
            /\ UNCHANGED <<attempt, result>>
    /\ UNCHANGED <<docs, idx, pdf_buffers, error_files, repairVars>>

\* model.generate_content returns the text r: lines 107-119, then the handler
\* when json5.loads or validate_structure raised
CallReturns(r) ==
    /\ pc = "attempt"
    /\ calls' = [calls EXCEPT ![idx] = @ + 1]
    /\ response' = SomeText(r)
    /\ raw' = SomeText(Repaired[r])
    /\ data' = IF Parsed[r].ok THEN Parsed[r].v ELSE data
    /\ IF Outcome[r] = "return"
       THEN /\ events' = events \o <<Event("response", 0), Event("return", 0)>>
            /\ result' = Parsed[r].v
            /\ pc' = "returned"
            /\ attempt' = attempt
       ELSE IF Outcome[r] = "except"
       THEN /\ events' = events \o <<Event("response", 0),
                                     Event("sleep", backoff(attempt))>>
            /\ NextIteration
       ELSE /\ events' = Append(events, Event("response", 0))
            /\ NextIteration
    /\ UNCHANGED <<docs, idx, pdf_buffers, error_files, repairVars>>

----------------------------------------------------------------------------
(* app.py: the loop over the uploaded files, lines 13-43 *)

MaxDocs == 2

\* the texts extract_pdf_text may return: empty, whitespace only, and text
DocTexts == { <<>>, <<" ">>, <<" ", "a">> }

\* not text
is_blank_unstripped(t) == t = <<>>

\* not text.strip()
is_blank(t) == strip(t) = <<>>

\* lines 18-21: a document without text is reported and skipped
SkipBlank ==
    /\ pc = "loop"
    /\ idx <= Len(docs)
    /\ is_blank(docs[idx])
    /\ error_files' = Append(error_files, idx)
    /\ idx' = idx + 1
    /\ UNCHANGED <<docs, pc, attempt, response, raw, data, result, calls,
                   events, pdf_buffers, repairVars>>

\* line 22 up to the first iteration of the retry loop
StartAnalyze ==
    /\ pc = "loop"
    /\ idx <= Len(docs)
    /\ ~is_blank(docs[idx])
    /\ pc' = "attempt"
    /\ attempt' = 0
    /\ raw' = NoText
    /\ response' = NoText
    /\ data' = None
    /\ result' = None
    /\ events' = <<>>
    /\ UNCHANGED <<docs, idx, calls, pdf_buffers, error_files, repairVars>>

\* lines 23-28: a truthy result is rendered and kept, otherwise the document
\* is reported; an exception of the renderer ends the script.  What the run
\* of analyze_pitch_deck left behind is dead from here on and is cleared.
HandleResult ==
    /\ pc = "returned"
    /\ IF truthy(result)
       THEN IF renders(result)
            THEN /\ pdf_buffers' = Append(pdf_buffers, idx)
                 /\ idx' = idx + 1
                 /\ pc' = "loop"
                 /\ UNCHANGED error_files
            ELSE /\ pc' = "render_raised"
                 /\ UNCHANGED <<idx, pdf_buffers, error_files>>
       ELSE /\ error_files' = Append(error_files, idx)
            /\ idx' = idx + 1
            /\ pc' = "loop"
            /\ UNCHANGED pdf_buffers
    /\ attempt' = 0
    /\ response' = NoText
    /\ raw' = NoText
    /\ data' = None
    /\ result' = None
    /\ events' = <<>>
    /\ UNCHANGED <<docs, calls, repairVars>>

\* lines 29-43: the archive and the messages
Finish ==
    /\ pc = "loop"
    /\ idx > Len(docs)
    /\ pc' = "done"
    /\ UNCHANGED <<docs, idx, attempt, response, raw, data, result, calls,
                   events, pdf_buffers, error_files, repairVars>>

Batches == UNION { [1..n -> DocTexts] : n \in 1..MaxDocs }

Init ==
    /\ docs \in Batches
    /\ idx = 1
    /\ pc = "loop"
    /\ attempt = 0
    /\ response = NoText
    /\ raw = NoText
    /\ data = None
    /\ result = None
    /\ calls = [d \in DOMAIN docs |-> 0]
    /\ events = <<>>
    /\ pdf_buffers = <<>>
    /\ error_files = <<>>
    /\ text = <<>> /\ once = <<>> /\ twice = <<>> /\ rpc = "idle"

Next ==
    \/ SkipBlank
    \/ StartAnalyze
    \/ CallFails
    \/ \E r \in Responses : CallReturns(r)
    \/ HandleResult
    \/ Finish

Spec == Init /\ [][Next]_vars

----------------------------------------------------------------------------
(* The repair step applied once and then again to its own output *)

RepairOnce ==
    /\ rpc = "raw"
    /\ once' = repair(text)
    /\ rpc' = "once"
    /\ UNCHANGED <<text, twice, appVars>>

RepairTwice ==
    /\ rpc = "once"
    /\ twice' = repair(once)
    /\ rpc' = "twice"
    /\ UNCHANGED <<text, once, appVars>>

InitRepair ==
    /\ text \in Texts
    /\ once = <<>> /\ twice = <<>> /\ rpc = "raw"
    /\ docs = <<>> /\ idx = 1 /\ pc = "idle" /\ attempt = 0
    /\ response = NoText /\ raw = NoText /\ data = None /\ result = None
    /\ calls = <<>> /\ events = <<>> /\ pdf_buffers = <<>> /\ error_files = <<>>

NextRepair == RepairOnce \/ RepairTwice

SpecRepair == InitRepair /\ [][NextRepair]_vars

----------------------------------------------------------------------------
(* Properties *)

IsCall(ev) == ev.e \in {"error", "response"}
CallCount(evs) == Cardinality({ i \in DOMAIN evs : IsCall(evs[i]) })
LastEvent == events[Len(events)]

HasAllKeys(d) == d.k = "dict" /\ RequiredSet \subseteq DOMAIN d.m

\* the response text, repaired and parsed, is a record that passes validation
YieldsRecord(t) ==
    LET p == json5_loads(repair(t)) IN
    p.ok /\ truthy(p.v) /\ ~validate_raises(p.v) /\ validate_structure(p.v)

\* C1: a run of analyze_pitch_deck makes at most 5 generate_content calls,
\* whatever the errors, and none after the first response that yields a valid
\* record: the loop is never at a further iteration after such a response,
\* and no call follows a return.
C1_AtMostFiveCallsNoneAfterRecord ==
    /\ \A d \in DOMAIN calls : calls[d] <= 5
    /\ CallCount(events) <= 5
    /\ (pc = "attempt" /\ response.some) => ~YieldsRecord(response.v)
    /\ \A i, j \in DOMAIN events :
          (events[i].e = "return" /\ i < j) => ~IsCall(events[j])

\* a record is returned by the fifth call, after four failed attempts
C1_Witness ==
    /\ pc = "returned"
    /\ calls[idx] = 5
    /\ LastEvent.e = "return"
    /\ result # None

\* C2: the record analyze_pitch_deck returns is None or a document with all
\* 15 required keys at its top level.
C2_ReturnedRecordHasAllKeys ==
    (pc = "returned" /\ result # None) => HasAllKeys(result)

\* C3: when generate_content raises on every attempt, the run ends normally
\* after 5 calls with no record; nothing is raised out of analyze_pitch_deck.
C3_ModelDownReturnsNoRecord ==
    (events # <<>> /\ \A i \in DOMAIN events : events[i].e # "response") =>
        /\ pc \in {"attempt", "returned"}
        /\ pc = "returned" => (result = None /\ calls[idx] = 5)

\* C4: a document whose extracted text is empty or whitespace is skipped: no
\* generate_content call is ever made for it, it is reported as failed and not
\* rendered, and the loop goes on with the next document.
C4_BlankDocumentSkipped ==
    [][ /\ (pc = "loop" /\ idx <= Len(docs) /\ strip(docs[idx]) = <<>>) =>
            /\ pc' = "loop"
            /\ idx' = idx + 1
            /\ error_files' = Append(error_files, idx)
            /\ pdf_buffers' = pdf_buffers
        /\ \A d \in DOMAIN docs :
              strip(docs[d]) = <<>> =>
                  /\ calls'[d] = 0
                  /\ d < idx' =>
                        /\ \E i \in DOMAIN error_files' : error_files'[i] = d
                        /\ \A i \in DOMAIN pdf_buffers' : pdf_buffers'[i] # d
      ]_vars

\* a whitespace-only document was skipped without a call and the document
\* after it has been sent to the model
C4_Witness ==
    \E d \in DOMAIN docs :
        /\ docs[d] = <<" ">>
        /\ d < idx
        /\ calls[d] = 0
        /\ \E i \in DOMAIN error_files : error_files[i] = d
        /\ d + 1 \in DOMAIN docs /\ calls[d + 1] > 0

\* C5: the OverallScore of a returned record is the score derived by
\* compute_overall_score from its five sections, not the model's own value.
C5_OverallScoreIsDerived ==
    (pc = "returned" /\ result # None /\ renders(result)) =>
        /\ "OverallScore" \in DOMAIN result.m
        /\ result.m["OverallScore"].k = "num"
        /\ 100 * result.m["OverallScore"].n = compute_overall_score(result)

\* C6: a parsed document passes validation (and is returned) if and only if
\* every required key is one of its top-level keys, whatever the parser
\* returned: a mapping, a list, a string or a number.
C6_ValidIffTopLevelKeys ==
    (response.some /\ json5_loads(repair(response.v)).ok /\ truthy(data)) =>
        ((LastEvent.e = "return") <=> HasAllKeys(data))

IsStrictPrefix(a, b) == Len(a) < Len(b) /\ SubSeq(b, 1, Len(a)) = a

Kinds == { <<"{", "}">>, <<"[", "]">> }

\* C7 as claimed: for a raw model text with more opens than closes of a kind,
\* the repaired text has as many closes as opens of that kind and the raw
\* text is a strict prefix of it.
C7_RepairedExtendsRawText ==
    rpc # "raw" =>
        \A kind \in Kinds :
            count(text, kind[1]) > count(text, kind[2]) =>
                /\ count(once, kind[1]) = count(once, kind[2])
                /\ IsStrictPrefix(text, once)

\* C7 amended: with t the raw text after strip() and the removal of the
\* six-backtick runs, for each kind with more opens than closes in t the
\* repaired text has as many closes as opens of that kind, t is a strict
\* prefix of it, only closers follow t, and the other kind keeps its opens
\* and, when it had no deficit, its closes.
C7_RepairedExtendsCleanedText ==
    rpc # "raw" =>
        LET t == clean(text) IN
        \A kind \in Kinds :
            count(t, kind[1]) > count(t, kind[2]) =>
                /\ count(once, kind[1]) = count(once, kind[2])
                /\ IsStrictPrefix(t, once)
                /\ \A i \in (Len(t) + 1) .. Len(once) : once[i] \in {"}", "]"}
                /\ \A other \in Kinds \ {kind} :
                      /\ count(once, other[1]) = count(t, other[1])
                      /\ count(t, other[1]) <= count(t, other[2]) =>
                            count(once, other[2]) = count(t, other[2])

\* a text that lacks two closing braces and a closing bracket has been repaired
C7_Witness ==
    /\ rpc = "once"
    /\ count(clean(text), "{") >= count(clean(text), "}") + 2
    /\ count(clean(text), "[") > count(clean(text), "]")
    /\ Len(once) = Len(clean(text)) + 3

\* C8: on a text whose braces and brackets are balanced, the repair run on
\* its own output gives that output again.
C8_RepairIdempotent ==
    (/\ rpc = "twice"
     /\ \A kind \in Kinds : count(text, kind[1]) = count(text, kind[2]))
        => twice = once

\* C9: between any two generate_content calls of a run there is a backoff
\* sleep, and the sleep after the call of iteration a lasts 2^a seconds.
C9_BackoffBetweenCalls ==
    \A i, j \in DOMAIN events :
        (i < j /\ IsCall(events[i]) /\ IsCall(events[j])) =>
            \E m \in (i + 1) .. (j - 1) :
                /\ events[m].e = "sleep"
                /\ events[m].d = 2 ^ (CallCount(SubSeq(events, 1, i)) - 1)

\* the span from the first "{" to the last "}" of a text that has both
SliceToBraces(t) ==
    LET opens == { i \in DOMAIN t : t[i] = "{" }
        closes == { i \in DOMAIN t : t[i] = "}" }
    IN  IF opens = {} \/ closes = {} THEN t
        ELSE SubSeq(t, CHOOSE i \in opens : \A i2 \in opens : i <= i2,
                       CHOOSE i \in closes : \A i2 \in closes : i >= i2)

\* C10: a response that holds a "{" and a "}" is cut to the span between the
\* first "{" and the last "}" before it is parsed, so a valid object wrapped
\* in prose is returned as the record of that attempt.
C10_ProseWrappedObjectYieldsRecord ==
    (/\ response.some
     /\ count(response.v, "{") > 0 /\ count(response.v, "}") > 0
     /\ LET p == json5_loads(SliceToBraces(clean(response.v)))
        IN  p.ok /\ HasAllKeys(p.v))
        => /\ LastEvent.e = "return"
           /\ result = json5_loads(SliceToBraces(clean(response.v))).v

====
